---- MODULE Spec2Model ----
(***************************************************************************)
(* Finance Assistant (Home Assistant custom component).                    *)
(*                                                                         *)
(* The module models                                                       *)
(*   - the fallback-routing HTTP client (_request of the coordinator and   *)
(*     of FinanceAssistantApiClient),                                      *)
(*   - the coordinator poll (_async_update_data) and the refresh that      *)
(*     stores its result,                                                  *)
(*   - the config entry set-up / unload,                                   *)
(*   - the reconcile_stock_assets service,                                 *)
(*   - the summary sensors' aggregations.                                  *)
(*                                                                         *)
(* Money: milliunits are integers.  Currency amounts that the code holds   *)
(* as floats are kept as exact integers in a named unit (cents,            *)
(* milliunits, tenths of a milliunit).                                     *)
(***************************************************************************)
EXTENDS Integers, Sequences, FiniteSets, TLC

VARIABLES
    supervisor_token,      \* os.environ SUPERVISOR_TOKEN: "" when absent
    last_request,          \* the last completed _request call (client, attempts, result)
    data,                  \* coordinator.data
    last_update_success,   \* coordinator.last_update_success
    last_poll,             \* the last _async_update_data call (fetches, previous data, result)
    states,                \* hass.states: entity id -> state
    reconcile_pc,          \* where async_handle_reconcile_stock_assets stands
    refresh_pending,       \* the debouncer holds the requested refresh back
    inspected,             \* what the handler saw of the coordinator after its wait
    assets_to_reconcile,   \* the handler's list of eligible assets
    idx,                   \* the loop position in assets_to_reconcile (1-based)
    successful_updates,
    failed_updates,
    reconciled,            \* per processed asset: the state read and what was done
    posts,                 \* create_adjustment_transaction calls of this run
    notifications,         \* persistent notification ids that have been created
    entry_state,           \* the config entry: how far set-up has come
    use_supervisor_api,    \* async_setup_entry's flag from the initial ping
    hass_data,             \* a coordinator is stored in hass.data[DOMAIN][entry_id]
    platforms_forwarded,   \* the sensor platform has been set up for the entry
    service_registered,    \* reconcile_stock_assets is registered
    setup_raised,          \* where the last set-up attempt raised ConfigEntryNotReady
    today,                 \* the local date the sensors last read (a day number)
    sensor_key,            \* per summary sensor: its _sensor_key attribute
    sensor_state,          \* per summary sensor: the state it last wrote
    account_sensor,        \* the account sensor of one account: its attributes
    asset_sensor           \* the asset sensor of one asset: its attributes

requestVars == <<supervisor_token, last_request>>
coordinatorVars == <<data, last_update_success, last_poll>>
reconcileVars == <<reconcile_pc, refresh_pending, inspected, assets_to_reconcile, idx,
                   successful_updates, failed_updates, reconciled, posts, notifications>>

setupVars == <<entry_state, use_supervisor_api, hass_data, platforms_forwarded,
               service_registered, setup_raised>>

vars == <<supervisor_token, last_request, data, last_update_success, last_poll, states,
          reconcile_pc, refresh_pending, inspected, assets_to_reconcile, idx,
          successful_updates, failed_updates, reconciled, posts, notifications,
          entry_state, use_supervisor_api, hass_data, platforms_forwarded,
          service_registered, setup_raised, today, sensor_key, sensor_state,
          account_sensor, asset_sensor>>

sensorVars == <<today, sensor_key, sensor_state, account_sensor, asset_sensor>>

----------------------------------------------------------------------------
(* Python values *)

None == "None"

\* dict.get(key, default) on a dict modelled as a function
Get(d, k, default) == IF k \in DOMAIN d THEN d[k] ELSE default

EmptyDict == [k \in {} |-> None]

\* JSON documents: a dict (with its content) or something that is not a dict
JsonDict(d) == [isdict |-> TRUE, d |-> d]
JsonNonDict == [isdict |-> FALSE, d |-> EmptyDict]

----------------------------------------------------------------------------
(* What the network does with one attempt *)

Supervisor == "Supervisor"
Direct == "Direct"
NoRoute == "None"

Tokens == {"", "tok"}

\* ClientConnectorError, asyncio.TimeoutError or socket.gaierror
ConnError == [t |-> "conn", status |-> 0, body |-> "none", json |-> JsonNonDict]
\* any other Exception out of websession.request
Unexpected == [t |-> "exc", status |-> 0, body |-> "none", json |-> JsonNonDict]
\* a response: body "json" parses, "nonjson" makes response.json() raise
\* ContentTypeError/JSONDecodeError, "jsonexc" makes it raise another Exception
Http(s, b, j) == [t |-> "http", status |-> s, body |-> b, json |-> j]

Statuses == {200, 204, 401, 403, 404, 500}

Is2xx(resp) == resp.t = "http" /\ 200 <= resp.status /\ resp.status < 300

Responses(Docs) ==
    {ConnError, Unexpected}
    \cup {Http(s, "text", JsonNonDict) : s \in Statuses \ {200}}
    \cup {Http(200, "nonjson", JsonNonDict), Http(200, "jsonexc", JsonNonDict)}
    \cup {Http(200, "json", j) : j \in Docs}

\* documents a generic endpoint may answer with
PlainDocs == {JsonDict(EmptyDict), JsonDict([k \in {"status"} |-> "ok"]), JsonNonDict}

----------------------------------------------------------------------------
(* Results of a call *)

Return(v) == [kind |-> "return", value |-> v, exc |-> "none"]
Raise(e) == [kind |-> "raise", value |-> JsonNonDict, exc |-> e]

Coordinator == "coordinator"
ApiClient == "api_client"
Clients == {Coordinator, ApiClient}

\* the exception class each client wraps its failures in
BaseError(client) ==
    IF client = Coordinator THEN "UpdateFailed" ELSE "FinanceAssistantApiClientError"

\* the exception a failed primary attempt leaves in last_error
PrimaryError(client, resp) ==
    IF client = ApiClient /\ resp.t = "http" /\ resp.status \in {401, 403}
    THEN "FinanceAssistantApiClientAuthenticationError"
    ELSE BaseError(client)

\* The primary attempt: either the call returns, or last_error is set.
PrimaryAttempt(client, resp) ==
    IF Is2xx(resp) /\ resp.status = 204
    THEN [returned |-> TRUE, value |-> JsonDict(EmptyDict), last_error |-> None]
    ELSE IF Is2xx(resp) /\ resp.body = "json"
    THEN [returned |-> TRUE, value |-> resp.json, last_error |-> None]
    ELSE [returned |-> FALSE, value |-> JsonNonDict,
          last_error |-> PrimaryError(client, resp)]

\* a fallback that raises last_error although the 2xx branch has cleared it
SecondaryAttempt_cleared(client, resp, last_error) ==
    IF Is2xx(resp) /\ resp.status = 204 THEN Return(JsonDict(EmptyDict))
    ELSE IF Is2xx(resp) /\ resp.body = "json" THEN Return(resp.json)
    ELSE IF Is2xx(resp) /\ client = Coordinator THEN Raise("TypeError")
    ELSE Raise(last_error)

\* The result of the fallback attempt.  Every raise inside the try block is
\* caught again by "except Exception", which raises last_error or, when the
\* 2xx branch of the coordinator has cleared it, a new UpdateFailed.
SecondaryAttempt(client, resp, last_error) ==
    IF Is2xx(resp) /\ resp.status = 204 THEN Return(JsonDict(EmptyDict))
    ELSE IF Is2xx(resp) /\ resp.body = "json" THEN Return(resp.json)
    ELSE IF Is2xx(resp) /\ client = Coordinator THEN Raise(BaseError(client))
    ELSE Raise(last_error)

PrimaryRoute(token) == IF token # "" THEN Supervisor ELSE Direct

\* a fallback that does not look at the token
SecondaryRoute_always(token) == Direct

SecondaryRoute(token) == IF token # "" THEN Direct ELSE NoRoute

Bearer(token) == [h \in {"Authorization"} |-> token]

\* headers of the primary attempt
PrimaryHeaders(client, token, request_headers) ==
    IF token # ""
    THEN Bearer(token)
    ELSE IF client = Coordinator THEN request_headers ELSE EmptyDict

\* a fallback that sends the headers of the primary attempt again
SecondaryHeaders_primary(client, token, request_headers) ==
    PrimaryHeaders(client, token, request_headers)

\* headers of the fallback attempt
SecondaryHeaders(client, token, request_headers) ==
    IF client = Coordinator THEN request_headers ELSE EmptyDict

Attempt(route, headers, resp) == [route |-> route, headers |-> headers, resp |-> resp]

\* _request: env gives, per route, what the network does with an attempt
\* on that route.
Request(client, token, request_headers, env) ==
    LET proute == PrimaryRoute(token)
        sroute == SecondaryRoute(token)
        p == PrimaryAttempt(client, env[proute])
        first == <<Attempt(proute, PrimaryHeaders(client, token, request_headers),
                           env[proute])>>
    IN  IF p.returned
        THEN [client |-> client, attempts |-> first, result |-> Return(p.value)]
        ELSE IF p.last_error # None /\ sroute # NoRoute
        THEN [client |-> client,
              attempts |-> Append(first,
                  Attempt(sroute, SecondaryHeaders(client, token, request_headers),
                          env[sroute])),
              result |-> SecondaryAttempt(client, env[sroute], p.last_error)]
        ELSE [client |-> client, attempts |-> first, result |-> Raise(p.last_error)]

----------------------------------------------------------------------------
(* The coordinator poll *)

NoData == JsonNonDict

\* "if self.data": None and the empty dict are falsy
Truthy(d) == d.isdict /\ DOMAIN d.d # {}

\* a fallback that forgets the last known config
ConfigFallback_default(self_data) == EmptyDict

\* combined_data['config'] when the /config fetch is unusable
ConfigFallback(self_data) ==
    IF Truthy(self_data) THEN Get(self_data.d, "config", EmptyDict) ELSE EmptyDict

\* dict with d[k] = v set
DictSet(d, k, v) == [x \in DOMAIN d \cup {k} |-> IF x = k THEN v ELSE d[x]]

\* A fetch that gather() hands back: a raised exception is returned as a value
Unusable(fetch) == fetch.kind = "raise" \/ ~fetch.value.isdict

\* _async_update_data, given the results of the two gathered fetches
AsyncUpdateData(self_data, main_data, config_data) ==
    IF Unusable(main_data)
    THEN Raise("UpdateFailed")
    ELSE Return(JsonDict(DictSet(main_data.value.d, "config",
                    IF Unusable(config_data)
                    THEN ConfigFallback(self_data)
                    ELSE config_data.value.d)))

NoPoll == [main |-> Raise("none"), config |-> Raise("none"), prev |-> NoData,
           result |-> Raise("none")]

InitCoordinator ==
    /\ data = NoData
    /\ last_update_success = TRUE
    /\ last_poll = NoPoll

\* what the two routes do with the attempts of one fetch
Env(rs, rd) == [r \in {Supervisor, Direct} |-> IF r = Supervisor THEN rs ELSE rd]

\* The environments a call can tell apart: a route the call never tries is
\* given ConnError.
Envs(token, R) ==
    UNION { { Env(rs, rd) :
                rd \in IF token # "" /\ PrimaryAttempt(Coordinator, rs).returned
                       THEN {ConnError} ELSE R } :
            rs \in IF token = "" THEN {ConnError} ELSE R }

\* DataUpdateCoordinator refresh: run _async_update_data, keep the old data and
\* clear last_update_success on UpdateFailed, store the result otherwise.
Refresh(MainResponses, ConfigResponses) ==
    \E me \in Envs(supervisor_token, MainResponses),
       ce \in Envs(supervisor_token, ConfigResponses) :
        LET main_data == Request(Coordinator, supervisor_token, EmptyDict, me).result
            config_data == Request(Coordinator, supervisor_token, EmptyDict, ce).result
            result == AsyncUpdateData(data, main_data, config_data)
        IN  /\ last_poll' = [main |-> main_data, config |-> config_data,
                             prev |-> data, result |-> result]
            /\ IF result.kind = "return"
               THEN data' = result.value /\ last_update_success' = TRUE
               ELSE data' = data /\ last_update_success' = FALSE

----------------------------------------------------------------------------
(* Numbers *)

\* int(x) of Python: a / b truncated toward zero (b > 0)
TruncDiv(a, b) == IF a >= 0 THEN a \div b ELSE -((-a) \div b)

\* round(x) of Python on the exact quotient n / d (d > 0): nearest integer,
\* a tie goes to the even neighbour
PyRound(n, d) ==
    LET q == n \div d
        r == n % d
    IN  IF 2 * r < d THEN q
        ELSE IF 2 * r > d THEN q + 1
        ELSE IF q % 2 = 0 THEN q ELSE q + 1

\* a JSON number or its absence: kind is "absent", "text" (not a number),
\* "num" (a number, n in the unit of the field), "int" or "float" (for a
\* balance: an integer number of milliunits, or a number that is no int)
Num(kind, n) == [kind |-> kind, n |-> n]
Absent == Num("absent", 0)
Text == Num("text", 0)

----------------------------------------------------------------------------
(* The reconcile_stock_assets service *)

\* Asset 'value' is in tenths of a milliunit (1.0009 currency units = 10009),
\* share counts are in tenths, prices in thousandths of a currency unit.
ValueScale == 10

\* Decimal values v (in tenths of a milliunit) for which the double product
\* float(v) * 1000 lies just below the exact integer: float("1.001") * 1000
\* is 1000.9999999999999 in IEEE-754 double arithmetic.
FloatShort == {10010}

\* int(float(value) * 1000)
IntFloatTimes1000(v) ==
    IF v \in FloatShort THEN TruncDiv(v, ValueScale) - 1 ELSE TruncDiv(v, ValueScale)

\* current_ynab_balance_milliunits of an asset
LedgerBalance(asset) ==
    IF asset.value.kind = "absent"
    THEN IF asset.balance.kind = "absent" THEN Num("int", 0) ELSE asset.balance
    ELSE IF asset.value.kind = "num"
    THEN Num("int", IntFloatTimes1000(asset.value.n))
    ELSE Num("int", 0)

\* next((t.get("id") for t in asset_types if t.get("name") == "Stocks"), None);
\* a missing id is "", which is falsy like None
RECURSIVE StockTypeId(_)
StockTypeId(asset_types) ==
    IF asset_types = <<>> THEN ""
    ELSE IF Head(asset_types).name = "Stocks" THEN Head(asset_types).id
    ELSE StockTypeId(Tail(asset_types))

\* a check that trusts stale data after a failed update
InspectFails_stale(success, d) ==
    \/ ~Truthy(d)
    \/ StockTypeId(Get(d.d, "asset_types", <<>>)) = ""

\* the handler gives up after its wait
InspectFails(success, d) ==
    \/ ~success
    \/ ~Truthy(d)
    \/ StockTypeId(Get(d.d, "asset_types", <<>>)) = ""

\* a filter that takes assets of every type
Eligible_anytype(asset, manual_assets, stock_type_id) ==
    /\ asset.isdict /\ ~asset.deleted
    /\ asset.id # ""
    /\ asset.id \in DOMAIN manual_assets
    /\ LET asset_details == manual_assets[asset.id]
       IN  /\ asset_details.entity_id # ""
           /\ LedgerBalance(asset).kind = "int"
           /\ asset_details.shares.kind = "num"
           /\ asset_details.shares.n > 0

\* the filter of step 2 for one asset
Eligible(asset, manual_assets, stock_type_id) ==
    /\ asset.isdict /\ ~asset.deleted
    /\ asset.id # ""
    /\ asset.id \in DOMAIN manual_assets
    /\ LET asset_details == manual_assets[asset.id]
       IN  /\ asset_details.type_id = stock_type_id
           /\ asset_details.entity_id # ""
           /\ asset_details.shares.kind # "absent"
           /\ LedgerBalance(asset).kind = "int"
           /\ asset_details.shares.kind = "num"
           /\ asset_details.shares.n > 0

RECURSIVE AssetsToReconcile(_, _, _)
AssetsToReconcile(all_assets, manual_assets, stock_type_id) ==
    IF all_assets = <<>> THEN <<>>
    ELSE LET asset == Head(all_assets)
             rest == AssetsToReconcile(Tail(all_assets), manual_assets, stock_type_id)
         IN  IF Eligible(asset, manual_assets, stock_type_id)
             THEN <<[ynab_account_id |-> asset.id,
                     entity_id |-> manual_assets[asset.id].entity_id,
                     shares |-> manual_assets[asset.id].shares.n,
                     ynab_balance_milliunits |-> LedgerBalance(asset).n]>> \o rest
             ELSE rest

\* int(round(current_price * shares * 1000)): price in thousandths, shares in tenths
CalculatedValueMilliunits(price, shares) == PyRound(price * shares, 10)

\* "api_response and isinstance(api_response, dict) and api_response.get('transaction_id')"
AdjustmentCreated(result) ==
    /\ result.kind = "return"
    /\ Truthy(result.value)
    /\ Get(result.value.d, "transaction_id", "") # ""

\* persistent_notification.async_create: a notification id exists once
Notify(created, notification_id) ==
    IF \E i \in 1..Len(created) : created[i] = notification_id
    THEN created
    ELSE Append(created, notification_id)

JsonHeaders == [h \in {"Content-Type"} |-> "application/json"]

InitReconcile ==
    /\ reconcile_pc = "idle"
    /\ refresh_pending = FALSE
    /\ inspected = [success |-> TRUE, data |-> NoData]
    /\ assets_to_reconcile = <<>>
    /\ idx = 1
    /\ successful_updates = 0
    /\ failed_updates = 0
    /\ reconciled = <<>>
    /\ posts = <<>>
    /\ notifications = <<>>

reconcileLoopVars == <<assets_to_reconcile, idx, successful_updates, failed_updates,
                       reconciled, posts, notifications>>

\* The service is called: coordinator.async_request_refresh() either runs the
\* refresh at once or, inside the debouncer's cooldown, leaves it for later;
\* the handler then sleeps.
ReconcileCall(MainResponses, ConfigResponses) ==
    /\ service_registered
    /\ reconcile_pc = "idle"
    /\ reconcile_pc' = "waiting"
    /\ \/ Refresh(MainResponses, ConfigResponses) /\ refresh_pending' = FALSE
       \/ refresh_pending' = TRUE /\ UNCHANGED coordinatorVars
    /\ UNCHANGED <<requestVars, states, inspected, reconcileLoopVars, setupVars, sensorVars>>

\* the refresh the debouncer held back runs while the handler sleeps
DeferredRefresh(MainResponses, ConfigResponses) ==
    /\ reconcile_pc = "waiting"
    /\ refresh_pending
    /\ refresh_pending' = FALSE
    /\ Refresh(MainResponses, ConfigResponses)
    /\ UNCHANGED <<requestVars, states, reconcile_pc, inspected, reconcileLoopVars,
                   setupVars, sensorVars>>

\* After the sleep: the checks of the coordinator, the search for the
\* 'Stocks' type and the filter of the assets.
ReconcileInspect ==
    /\ reconcile_pc = "waiting"
    /\ inspected' = [success |-> last_update_success, data |-> data]
    /\ IF InspectFails(last_update_success, data)
       THEN /\ notifications' = Notify(notifications, "fa_reconcile_error")
            /\ reconcile_pc' = "done"
            /\ UNCHANGED assets_to_reconcile
       ELSE LET todo == AssetsToReconcile(Get(data.d, "assets", <<>>),
                                          Get(data.d, "manual_assets", EmptyDict),
                                          StockTypeId(Get(data.d, "asset_types", <<>>)))
            IN  /\ assets_to_reconcile' = todo
                /\ reconcile_pc' = IF todo = <<>> THEN "done" ELSE "loop"
                /\ UNCHANGED notifications
    /\ UNCHANGED <<requestVars, coordinatorVars, states, refresh_pending, idx,
                   successful_updates, failed_updates, reconciled, posts, setupVars, sensorVars>>

\* the body of the loop of step 3 for one asset.  float() accepts the state
\* "nan"; int(round(...)) of it raises ValueError outside any try block, which
\* ends the handler.
ReconcileStep(asset, entity_state, adjustment_milliunits, PostResponses) ==
    LET Done(ok, posted) ==
            /\ reconcile_pc' = reconcile_pc
            /\ idx' = idx + 1
            /\ successful_updates' = successful_updates + (IF ok THEN 1 ELSE 0)
            /\ failed_updates' = failed_updates + (IF ok THEN 0 ELSE 1)
            /\ reconciled' = Append(reconciled,
                  [ynab_id |-> asset.ynab_account_id, state |-> entity_state,
                   ok |-> ok, posted |-> posted])
    IN  IF entity_state.kind = "nan"
        THEN /\ reconcile_pc' = "raised"
             /\ UNCHANGED <<idx, successful_updates, failed_updates, reconciled, posts>>
        ELSE IF entity_state.kind # "num"
        THEN Done(FALSE, FALSE) /\ UNCHANGED posts
        ELSE IF adjustment_milliunits = 0
        THEN Done(TRUE, FALSE) /\ UNCHANGED posts
        ELSE \E env \in Envs(supervisor_token, PostResponses) :
               LET call == Request(Coordinator, supervisor_token, JsonHeaders, env)
               IN  /\ posts' = Append(posts,
                         [endpoint |-> "create_adjustment_transaction",
                          account_id |-> asset.ynab_account_id,
                          amount |-> adjustment_milliunits,
                          attempts |-> Len(call.attempts)])
                   /\ Done(AdjustmentCreated(call.result), TRUE)

\* one iteration of the loop of step 3
ReconcileAsset(PostResponses) ==
    /\ reconcile_pc = "loop"
    /\ idx <= Len(assets_to_reconcile)
    /\ LET asset == assets_to_reconcile[idx]
           entity_state == states[asset.entity_id]
       IN  ReconcileStep(asset, entity_state,
                         CalculatedValueMilliunits(entity_state.n, asset.shares)
                             - asset.ynab_balance_milliunits,
                         PostResponses)
    /\ UNCHANGED <<requestVars, coordinatorVars, states, refresh_pending,
                   inspected, assets_to_reconcile, notifications, setupVars, sensorVars>>

\* the final notification
ReconcileFinish ==
    /\ reconcile_pc = "loop"
    /\ idx > Len(assets_to_reconcile)
    /\ reconcile_pc' = "done"
    /\ notifications' =
          IF failed_updates > 0 THEN Notify(notifications, "fa_reconcile_error")
          ELSE IF successful_updates > 0 THEN Notify(notifications, "fa_reconcile_success")
          ELSE notifications
    /\ UNCHANGED <<requestVars, coordinatorVars, states, refresh_pending, inspected,
                   assets_to_reconcile, idx, successful_updates, failed_updates,
                   reconciled, posts, setupVars, sensorVars>>

----------------------------------------------------------------------------
(* Set-up and unload of the config entry *)

NotRaised == "none"

InitSetup ==
    /\ entry_state = "not_loaded"
    /\ use_supervisor_api = FALSE
    /\ hass_data = FALSE
    /\ platforms_forwarded = FALSE
    /\ service_registered = FALSE
    /\ setup_raised = NotRaised

\* the state async_setup_entry leaves when it returns True
Loaded ==
    /\ entry_state = "loaded"
    /\ use_supervisor_api \in BOOLEAN
    /\ hass_data = TRUE
    /\ platforms_forwarded = TRUE
    /\ service_registered = TRUE
    /\ setup_raised = NotRaised

\* use_supervisor_api after the initial Supervisor ping
PingDecides(token, resp) == token # "" /\ resp.t = "http" /\ resp.status = 200

\* async_setup_entry starts (first attempt, or the retry that follows
\* ConfigEntryNotReady): the initial Supervisor ping, then the coordinator is
\* constructed.
SetupStart(PingResponses) ==
    /\ entry_state \in {"not_loaded", "setup_retry"}
    /\ entry_state' = "pinged"
    /\ setup_raised' = NotRaised
    /\ \E resp \in PingResponses :
          use_supervisor_api' = PingDecides(supervisor_token, resp)
    /\ UNCHANGED <<requestVars, coordinatorVars, states, reconcileVars, hass_data,
                   platforms_forwarded, service_registered, sensorVars>>

\* coordinator.verify_connection(): ConfigEntryNotReady when /ping fails on
\* every route, otherwise the coordinator is stored in hass.data
SetupVerify(PingResponses) ==
    /\ entry_state = "pinged"
    /\ \E env \in Envs(supervisor_token, PingResponses) :
          LET call == Request(Coordinator, supervisor_token, EmptyDict, env)
          IN  /\ last_request' = call
              /\ IF call.result.kind = "raise"
                 THEN /\ notifications' = Notify(notifications, "fa_connection_error")
                      /\ setup_raised' = "verify_connection"
                      /\ entry_state' = "setup_retry"
                      /\ UNCHANGED hass_data
                 ELSE /\ hass_data' = TRUE
                      /\ entry_state' = "verified"
                      /\ UNCHANGED <<notifications, setup_raised>>
    /\ UNCHANGED <<supervisor_token, coordinatorVars, states, reconcile_pc,
                   refresh_pending, inspected, assets_to_reconcile, idx,
                   successful_updates, failed_updates, reconciled, posts,
                   use_supervisor_api, platforms_forwarded, service_registered,
                   sensorVars>>

\* coordinator.async_config_entry_first_refresh(): a failed first refresh
\* raises ConfigEntryNotReady out of async_setup_entry
SetupFirstRefresh(MainResponses, ConfigResponses) ==
    /\ entry_state = "verified"
    /\ Refresh(MainResponses, ConfigResponses)
    /\ IF last_update_success'
       THEN entry_state' = "refreshed" /\ UNCHANGED setup_raised
       ELSE entry_state' = "setup_retry" /\ setup_raised' = "first_refresh"
    /\ UNCHANGED <<requestVars, states, reconcileVars, use_supervisor_api, hass_data,
                   platforms_forwarded, service_registered, sensorVars>>

\* the sensor platform is forwarded and the service registered
SetupForward ==
    /\ entry_state = "refreshed"
    /\ platforms_forwarded' = TRUE
    /\ service_registered' = TRUE
    /\ entry_state' = "loaded"
    /\ UNCHANGED <<requestVars, coordinatorVars, states, reconcileVars,
                   use_supervisor_api, hass_data, setup_raised, sensorVars>>

\* async_unload_entry: the service is removed; the coordinator is dropped
\* only when the platforms unloaded
UnloadEntry ==
    /\ entry_state = "loaded"
    /\ service_registered' = FALSE
    /\ \E unload_ok \in BOOLEAN :
          IF unload_ok
          THEN /\ hass_data' = FALSE
               /\ platforms_forwarded' = FALSE
               /\ entry_state' = "not_loaded"
          ELSE /\ entry_state' = "failed_unload"
               /\ UNCHANGED <<hass_data, platforms_forwarded>>
    /\ UNCHANGED <<requestVars, coordinatorVars, states, reconcileVars,
                   use_supervisor_api, setup_raised, sensorVars>>

----------------------------------------------------------------------------
(* hass.states *)

StockEntity == "sensor.stock_price"
Entities == {StockEntity}

\* hass.states.get(entity_id): None ("absent"), a state that float() rejects
\* ("text", e.g. unavailable), or a price in thousandths
\* a state string that float() parses to NaN
NaNState == Num("nan", 0)

EntityStates == {Absent, Text, NaNState, Num("num", 769), Num("num", 1001)}

InitHass == states \in [Entities -> EntityStates]

----------------------------------------------------------------------------
(* The summary sensors *)

\* Sensor values that the code holds as floats rounded to two decimals are
\* integers in cents; sums of milliunits / 1000.0 are integers in milliunits.

Money(cents) == [t |-> "money", cents |-> cents, flag |-> FALSE]
Flag(b) == [t |-> "bool", cents |-> 0, flag |-> b]

\* ynab_milliunits_to_float, in milliunits
YnabMilliunitsToFloat(milliunits) ==
    IF milliunits.kind = "absent" THEN 0 ELSE milliunits.n

\* st.get("amount", 0)
AmountOrZero(st) == IF st.amount.kind = "absent" THEN 0 ELSE st.amount.n

\* safe_parse_ynab_date: the day, or None for a missing or unparseable string
SafeParseYnabDate(date_str) == IF date_str.kind = "num" THEN date_str ELSE Absent

RECURSIVE Sum(_)
Sum(amounts) == IF amounts = <<>> THEN 0 ELSE Head(amounts) + Sum(Tail(amounts))

Abs(x) == IF x < 0 THEN -x ELSE x

\* float(round(total, 2)) of a total in milliunits, in cents.  A total that
\* lies halfway between two cents has no exact double; ties_up says on which
\* side of the tie the double of this total lies.
RoundCents(total, ties_up) ==
    LET q == total \div 10
        r == total % 10
    IN  IF r < 5 THEN q
        ELSE IF r > 5 THEN q + 1
        ELSE IF ties_up THEN q + 1 ELSE q

\* str.lower() on the account types of the model
Lower(account_type) ==
    CASE account_type = "Checking" -> "checking"
      [] account_type = "CASH" -> "cash"
      [] OTHER -> account_type

\* _get_helper_data: a list of the coordinator data, [] when missing
HelperList(d, key) == IF d.isdict THEN Get(d.d, key, <<>>) ELSE <<>>

\* a type test that compares the account type as it is written
IsCashAccount_exact(a) ==
    a.isdict /\ a.account_type \in {"checking", "savings", "cash"}

\* isinstance(a, dict) and a.get("account_type", "").lower() in [...]
IsCashAccount(a) ==
    a.isdict /\ Lower(a.account_type) \in {"checking", "savings", "cash"}

\* _calculate_ynab_balances for the sensor key it is run under
CalculateYnabBalances(key, d, ties_up) ==
    LET accounts == HelperList(d, "accounts")
        credit_cards == HelperList(d, "credit_cards")
    IN  IF key = "ynab_cash_balance"
        THEN LET cash_accounts ==
                     SelectSeq(accounts, LAMBDA a : IsCashAccount(a) /\ ~a.closed)
             IN  RoundCents(Sum([i \in 1..Len(cash_accounts) |->
                     YnabMilliunitsToFloat(cash_accounts[i].balance)]), ties_up)
        ELSE IF key = "ynab_cash_liquid"
        THEN LET cash_accounts == SelectSeq(accounts, IsCashAccount)
             IN  RoundCents(Sum([i \in 1..Len(cash_accounts) |->
                     YnabMilliunitsToFloat(cash_accounts[i].allocation_liquid)]), ties_up)
        ELSE IF key = "ynab_credit_balance"
        THEN LET active_cards == SelectSeq(credit_cards, LAMBDA c : c.isdict /\ ~c.closed)
             IN  RoundCents(Sum([i \in 1..Len(active_cards) |->
                     YnabMilliunitsToFloat(active_cards[i].balance)]), ties_up)
        ELSE 0

\* self._sensor_key.replace(f"scheduled_next_{days}_days_", "")
RelevantKeyPart(key) ==
    CASE key \in {"scheduled_next_7_days_inflow", "scheduled_next_30_days_inflow"} -> "inflow"
      [] key \in {"scheduled_next_7_days_outflow", "scheduled_next_30_days_outflow"} -> "outflow"
      [] key \in {"scheduled_next_7_days_net", "scheduled_next_30_days_net"} -> "net"
      [] OTHER -> key

\* a window that is closed at its end
InWindow_closed(next_date, now, end_date) ==
    next_date.kind = "num" /\ now <= next_date.n /\ next_date.n <= end_date

\* next_date and today <= next_date < end_date
InWindow(next_date, now, end_date) ==
    next_date.kind = "num" /\ now <= next_date.n /\ next_date.n < end_date

\* _calculate_scheduled_transactions(days)
CalculateScheduledTransactions(key, days, d, now, ties_up) ==
    LET scheduled_transactions == HelperList(d, "scheduled_transactions")
        end_date == now + days
        relevant_key_part == RelevantKeyPart(key)
        Wanted(st) ==
            LET amount == YnabMilliunitsToFloat(st.amount)
            IN  /\ st.isdict
                /\ InWindow(SafeParseYnabDate(st.date_next), now, end_date)
                /\ \/ relevant_key_part = "inflow" /\ amount > 0
                   \/ relevant_key_part = "outflow" /\ amount < 0
                   \/ relevant_key_part = "net"
        kept == SelectSeq(scheduled_transactions, Wanted)
        total == Sum([i \in 1..Len(kept) |-> YnabMilliunitsToFloat(kept[i].amount)])
    IN  IF relevant_key_part = "outflow"
        THEN RoundCents(Abs(total), ties_up)
        ELSE RoundCents(total, ties_up)

\* a choice of the next inflow that takes the first one listed
NextInflowDate_first(valid_inflow_tx) == Head(valid_inflow_tx).date_next.n

\* min(valid_inflow_tx, key=safe_date_key), then its date_next: the earliest
\* date of a non-empty list of dated transactions
NextInflowDate(valid_inflow_tx) ==
    CHOOSE d \in {valid_inflow_tx[i].date_next.n : i \in DOMAIN valid_inflow_tx} :
        \A i \in DOMAIN valid_inflow_tx : d <= valid_inflow_tx[i].date_next.n

\* _calculate_total_outflow_until_next_inflow
CalculateTotalOutflowUntilNextInflow(d, now, ties_up) ==
    LET scheduled_transactions == HelperList(d, "scheduled_transactions")
        valid_inflow_tx ==
            SelectSeq(scheduled_transactions, LAMBDA st :
                /\ st.isdict
                /\ SafeParseYnabDate(st.date_next).kind = "num"
                /\ st.date_next.n >= now
                /\ AmountOrZero(st) > 0)
    IN  IF valid_inflow_tx = <<>> THEN 0
        ELSE LET next_inflow_date == NextInflowDate(valid_inflow_tx)
                 outflows ==
                     SelectSeq(scheduled_transactions, LAMBDA st :
                         /\ st.isdict
                         /\ InWindow(SafeParseYnabDate(st.date_next), now,
                                     next_inflow_date)
                         /\ AmountOrZero(st) < 0)
             IN  RoundCents(Abs(Sum([i \in 1..Len(outflows) |->
                     YnabMilliunitsToFloat(outflows[i].amount)])), ties_up)

\* a helper that leaves the borrowed key in place
CalculateYnabBalancesForKey_kept(self_key, key, d, ties_up) ==
    [value |-> CalculateYnabBalances(key, d, ties_up), sensor_key |-> key]

\* _calculate_ynab_balances_for_key: runs under another key and restores the
\* sensor's own in "finally"
CalculateYnabBalancesForKey(self_key, key, d, ties_up) ==
    [value |-> CalculateYnabBalances(key, d, ties_up), sensor_key |-> self_key]

\* _calculate_can_pay_off_cards: the value and the _sensor_key it leaves
CalculateCanPayOffCards(self_key, d, ties_up) ==
    LET liquid_cash == CalculateYnabBalancesForKey(self_key, "ynab_cash_liquid", d, ties_up)
        credit_balance ==
            CalculateYnabBalancesForKey(liquid_cash.sensor_key, "ynab_credit_balance",
                                        d, ties_up)
    IN  [value |-> (liquid_cash.value + credit_balance.value) >= 0,
         sensor_key |-> credit_balance.sensor_key]

SummarySensors ==
    {"ynab_cash_balance", "ynab_cash_liquid", "ynab_credit_balance",
     "scheduled_next_7_days_inflow", "scheduled_next_7_days_outflow",
     "scheduled_next_7_days_net",
     "scheduled_next_30_days_inflow", "scheduled_next_30_days_outflow",
     "scheduled_next_30_days_net",
     "total_outflow_until_next_inflow", "can_pay_off_cards_in_full"}

\* _default_state
DefaultState(key) == IF key = "can_pay_off_cards_in_full" THEN Flag(FALSE) ELSE Money(0)

\* The state property: the calculation chosen by the current _sensor_key,
\* with the _sensor_key the calculation leaves behind.
StateOf(key, d, now, ties_up) ==
    IF key \in {"ynab_cash_balance", "ynab_cash_liquid", "ynab_credit_balance"}
    THEN [state |-> Money(CalculateYnabBalances(key, d, ties_up)), sensor_key |-> key]
    ELSE IF key \in {"scheduled_next_7_days_inflow", "scheduled_next_7_days_outflow",
                     "scheduled_next_7_days_net"}
    THEN [state |-> Money(CalculateScheduledTransactions(key, 7, d, now, ties_up)),
          sensor_key |-> key]
    ELSE IF key \in {"scheduled_next_30_days_inflow", "scheduled_next_30_days_outflow",
                     "scheduled_next_30_days_net"}
    THEN [state |-> Money(CalculateScheduledTransactions(key, 30, d, now, ties_up)),
          sensor_key |-> key]
    ELSE IF key = "total_outflow_until_next_inflow"
    THEN [state |-> Money(CalculateTotalOutflowUntilNextInflow(d, now, ties_up)),
          sensor_key |-> key]
    ELSE IF key = "can_pay_off_cards_in_full"
    THEN LET r == CalculateCanPayOffCards(key, d, ties_up)
         IN  [state |-> Flag(r.value), sensor_key |-> r.sensor_key]
    ELSE [state |-> DefaultState(key), sensor_key |-> key]

----------------------------------------------------------------------------
(* The account sensor *)

\* STATE_UNAVAILABLE as a native value
Unavailable == Num("unavailable", 0)

\* the account the sensor stands for
AccountId == "a1"

\* the sensor as __init__ has it before its first _update_internal_state
NewAccountSensor ==
    [native_value |-> Unavailable, name |-> <<>>, attributes |-> <<>>,
     attr_available |-> TRUE, last_account_data |-> <<>>]

\* _find_data_by_id: the matching dicts of a list, in order (the first is the
\* one found)
FindDataById(data_list, target_id) ==
    SelectSeq(data_list, LAMBDA item : item.isdict /\ item.id = target_id)

\* the display name of an account: the bank, the emoji prefix and the rest of
\* the name, each part only when it is shown
AccountDisplayName(account_data, include_ynab_emoji) ==
    (IF account_data.include_bank_in_name /\ account_data.bank # ""
     THEN <<account_data.bank>> ELSE <<>>)
    \o (IF include_ynab_emoji /\ account_data.name.emoji # ""
        THEN <<account_data.name.emoji>> ELSE <<>>)
    \o <<account_data.name.text>>

\* FinanceAssistantAccountSensor._update_internal_state
AccountUpdateInternalState(self, d) ==
    IF ~Truthy(d)
    THEN [self EXCEPT !.attr_available = FALSE]
    ELSE LET addon_config == Get(d.d, "config", EmptyDict)
             include_ynab_emoji == Get(addon_config, "include_ynab_emoji", TRUE)
             found == FindDataById(Get(d.d, "accounts", <<>>), AccountId)
         IN  IF found = <<>>
             THEN [self EXCEPT !.attr_available = FALSE, !.last_account_data = <<>>]
             ELSE IF <<Head(found)>> = self.last_account_data
             THEN [self EXCEPT !.attr_available = TRUE]
             ELSE [native_value |-> Num("num", YnabMilliunitsToFloat(Head(found).balance)),
                   name |-> AccountDisplayName(Head(found), include_ynab_emoji),
                   attributes |-> <<[ynab_id |-> Head(found).id,
                                     bank |-> Head(found).bank]>>,
                   attr_available |-> TRUE,
                   last_account_data |-> <<Head(found)>>]

\* a handler that builds the sensor anew from each poll
AccountHandleCoordinatorUpdate_reset(self, d) ==
    AccountUpdateInternalState(NewAccountSensor, d)

\* FinanceAssistantAccountSensor._handle_coordinator_update: the first entry
\* of 'accounts' whose id matches is processed; an entry that is no dict
\* raises before it, and then, as when nothing matches, nothing is touched
AccountHandleCoordinatorUpdate(self, d) ==
    IF ~Truthy(d) \/ "accounts" \notin DOMAIN d.d
    THEN self
    ELSE LET accounts == d.d["accounts"]
             stops == {i \in DOMAIN accounts :
                          ~accounts[i].isdict \/ accounts[i].id = AccountId}
         IN  IF stops = {} THEN self
             ELSE LET i == CHOOSE j \in stops : \A k \in stops : j <= k
                  IN  IF accounts[i].isdict
                      THEN AccountUpdateInternalState(self, d)
                      ELSE self

\* FinanceAssistantAccountSensor.available
AccountAvailable == last_update_success /\ data.isdict

----------------------------------------------------------------------------
(* The asset sensor *)

\* Values of the asset sensor are in ten-thousandths of a currency unit, the
\* unit of the product of a price (thousandths) and a share count (tenths).

\* the asset the sensor stands for
AssetSensorId == "asset-1"

\* the sensor as __init__ has it before its first _update_internal_state
NewAssetSensor ==
    [native_value |-> Unavailable, calculated_value |-> Absent,
     attr_available |-> TRUE, last_asset_data |-> <<>>]

\* calculated_value, in ten-thousandths; ties_up is the side on which the
\* double of a product halfway between two cents lies.  None unless entity_id and shares are set, shares parse to
\* a number > 0, the entity has a state other than unavailable/unknown and
\* float() accepts it
CalculatedValue(asset_data, hass_states, ties_up) ==
    IF asset_data.entity_id = "" \/ asset_data.shares.kind = "absent"
          \/ (asset_data.shares.kind = "num" /\ asset_data.shares.n = 0)
    THEN Absent
    ELSE IF asset_data.shares.kind # "num" \/ asset_data.shares.n <= 0
    THEN Absent
    ELSE LET entity_state == hass_states[asset_data.entity_id]
             x == entity_state.n * asset_data.shares.n
             rounded == 100 * (IF x % 100 < 50 THEN x \div 100
                               ELSE IF x % 100 > 50 THEN (x \div 100) + 1
                               ELSE IF ties_up THEN (x \div 100) + 1
                               ELSE x \div 100)
         IN  IF entity_state.kind = "num"
             THEN Num("num", rounded)
             ELSE IF entity_state.kind = "nan"
             THEN NaNState
             ELSE Absent

\* a choice that prefers the record's value
AssetNativeValue_ledger(use_calculated_asset_value, calculated_value, ynab_value) ==
    IF ynab_value.kind # "absent" THEN ynab_value
    ELSE IF use_calculated_asset_value /\ calculated_value.kind # "absent"
    THEN calculated_value
    ELSE Num("num", 0)

\* "Set Native Value based on Preference"
AssetNativeValue(use_calculated_asset_value, calculated_value, ynab_value) ==
    IF use_calculated_asset_value /\ calculated_value.kind # "absent"
    THEN calculated_value
    ELSE IF ynab_value.kind # "absent" THEN ynab_value
    ELSE Num("num", 0)

\* FinanceAssistantAssetSensor._update_internal_state.  Without a record the
\* method stops at the undefined name manual_details, after it has set the
\* defaults.
AssetUpdateInternalState(self, d, hass_states, ties_up) ==
    LET defaults == [self EXCEPT !.native_value = Num("num", 0),
                                 !.attr_available = FALSE]
    IN  IF ~Truthy(d) THEN [defaults EXCEPT !.calculated_value = Absent]
        ELSE LET addon_config == Get(d.d, "config", EmptyDict)
                 use_calculated_asset_value ==
                     Get(addon_config, "use_calculated_asset_value", FALSE)
                 found == FindDataById(Get(d.d, "assets", <<>>), AssetSensorId)
             IN  IF found = <<>> THEN defaults
                 ELSE LET calculated_value ==
                              CalculatedValue(Head(found), hass_states, ties_up)
                          ynab_value ==
                              IF Head(found).value.kind = "num"
                              THEN Head(found).value ELSE Absent
                      IN  [defaults EXCEPT
                              !.native_value =
                                  AssetNativeValue(use_calculated_asset_value,
                                                   calculated_value,
                                                   ynab_value),
                              !.calculated_value = calculated_value,
                              !.attr_available = TRUE]

\* combined_current_data of _handle_coordinator_update
CombinedCurrentData(d) ==
    <<[asset_data |-> IF Truthy(d)
                      THEN FindDataById(Get(d.d, "assets", <<>>), AssetSensorId)
                      ELSE <<>>,
       manual_details |-> IF Truthy(d)
                          THEN Get(Get(d.d, "manual_assets", EmptyDict),
                                   AssetSensorId, None)
                          ELSE None,
       config |-> IF Truthy(d) THEN Get(d.d, "config", EmptyDict) ELSE EmptyDict]>>

\* FinanceAssistantAssetSensor._handle_coordinator_update: nothing is
\* recomputed while the record and the config are those of the last update
AssetHandleCoordinatorUpdate(self, d, hass_states, ties_up) ==
    IF CombinedCurrentData(d) = self.last_asset_data
    THEN [self EXCEPT !.attr_available = TRUE]
    ELSE AssetUpdateInternalState(
             [self EXCEPT !.last_asset_data = CombinedCurrentData(d)],
             d, hass_states, ties_up)

InitSensors ==
    /\ today = Absent
    /\ sensor_key = [k \in SummarySensors |-> k]
    /\ sensor_state = [k \in SummarySensors |-> DefaultState(k)]
    /\ account_sensor = NewAccountSensor
    /\ asset_sensor = NewAssetSensor

\* The coordinator's update reaches every summary sensor: each reads the
\* date and the coordinator's data through its state property and writes
\* the result.
HandleCoordinatorUpdate(Days) ==
    /\ \E now \in Days, ties_up \in BOOLEAN :
          /\ today' = Num("num", now)
          /\ sensor_state' =
                [k \in SummarySensors |-> StateOf(sensor_key[k], data, now, ties_up).state]
          /\ sensor_key' =
                [k \in SummarySensors |->
                    StateOf(sensor_key[k], data, now, ties_up).sensor_key]
    /\ UNCHANGED <<requestVars, coordinatorVars, states, reconcileVars, setupVars,
                   account_sensor, asset_sensor>>

----------------------------------------------------------------------------
(* Specification of the HTTP client alone *)

HeaderSets == {EmptyDict, [h \in {"Content-Type"} |-> "application/json"]}

NoRequest == [client |-> "none", attempts |-> <<>>, result |-> Raise("none")]

InitRequest ==
    /\ supervisor_token \in Tokens
    /\ last_request = NoRequest
    /\ InitCoordinator
    /\ InitHass
    /\ InitReconcile
    /\ InitSetup
    /\ InitSensors

\* one call of the coordinator's _request
CoordinatorRequest ==
    \E hdrs \in HeaderSets, env \in Envs(supervisor_token, Responses(PlainDocs)) :
        /\ last_request' = Request(Coordinator, supervisor_token, hdrs, env)
        /\ UNCHANGED <<supervisor_token, coordinatorVars, states, reconcileVars,
                       setupVars, sensorVars>>

\* one call of FinanceAssistantApiClient._request
ApiClientRequest ==
    \E env \in Envs(supervisor_token, Responses(PlainDocs)) :
        /\ last_request' = Request(ApiClient, supervisor_token, EmptyDict, env)
        /\ UNCHANGED <<supervisor_token, coordinatorVars, states, reconcileVars,
                       setupVars, sensorVars>>

NextRequest == CoordinatorRequest \/ ApiClientRequest

SpecRequest == InitRequest /\ [][NextRequest]_vars

----------------------------------------------------------------------------
(* Specification of the periodic poll *)

\* the ways a fetch can go that the poll tells apart
PollResponses(Docs) ==
    {ConnError, Http(500, "text", JsonNonDict), Http(200, "nonjson", JsonNonDict),
     Http(204, "text", JsonNonDict)}
    \cup {Http(200, "json", j) : j \in Docs}

ConfigDocs ==
    {JsonDict([k \in {"use_calculated_asset_value"} |-> TRUE]),
     JsonDict([k \in {"use_calculated_asset_value"} |-> FALSE]),
     JsonNonDict}

PollMainDocs ==
    {JsonDict([k \in {"accounts"} |-> <<"a1">>]),
     JsonDict([k \in {"accounts", "config"} |->
                  IF k = "accounts" THEN <<"a1", "a2">> ELSE EmptyDict]),
     JsonNonDict}

InitPoll ==
    /\ supervisor_token \in Tokens
    /\ last_request = NoRequest
    /\ InitCoordinator
    /\ InitHass
    /\ InitReconcile
    /\ InitSetup
    /\ InitSensors

Poll ==
    /\ Refresh(PollResponses(PollMainDocs), PollResponses(ConfigDocs))
    /\ UNCHANGED <<requestVars, states, reconcileVars, setupVars, sensorVars>>

NextPoll == Poll

SpecPoll == InitPoll /\ [][NextPoll]_vars

----------------------------------------------------------------------------
(* Specification of the reconcile service *)

MaxAssets == 2

StocksType == "type-stocks"
OtherType == "type-other"

GoodDetails ==
    [present |-> TRUE, type_id |-> StocksType, entity_id |-> StockEntity,
     shares |-> Num("num", 13)]
NoDetails ==
    [present |-> FALSE, type_id |-> "", entity_id |-> "", shares |-> Absent]

AssetRecord(deleted, value, balance) ==
    [isdict |-> TRUE, deleted |-> deleted, id |-> "", value |-> value, balance |-> balance]

\* the kinds of asset the add-on may report, each with its manual_assets entry
AssetCases ==
    { [asset |-> AssetRecord(FALSE, Absent, Num("int", 1000)), details |-> GoodDetails],
      [asset |-> AssetRecord(FALSE, Num("num", 25000), Absent), details |-> GoodDetails],
      [asset |-> AssetRecord(FALSE, Num("num", 10009), Absent), details |-> GoodDetails],
      [asset |-> AssetRecord(FALSE, Num("num", 10010), Num("int", 1001)), details |-> GoodDetails],
      [asset |-> AssetRecord(FALSE, Text, Num("int", 1000)), details |-> GoodDetails],
      [asset |-> AssetRecord(FALSE, Absent, Num("float", 1000)), details |-> GoodDetails],
      [asset |-> AssetRecord(TRUE, Absent, Num("int", 1000)), details |-> GoodDetails],
      [asset |-> AssetRecord(FALSE, Absent, Num("int", 1000)), details |-> NoDetails] }

AssetId(i) == "asset-" \o ToString(i)

AssetTypeLists ==
    { <<[id |-> OtherType, name |-> "Cash"], [id |-> StocksType, name |-> "Stocks"]>>,
      <<[id |-> OtherType, name |-> "Cash"]>> }

\* the /all_data document for a list of asset cases
ReconcileDoc(cases, asset_types) ==
    LET withDetails == {i \in 1..Len(cases) : cases[i].details.present}
    IN  JsonDict([k \in {"assets", "manual_assets", "asset_types"} |->
            CASE k = "assets" ->
                    [i \in 1..Len(cases) |-> [cases[i].asset EXCEPT !.id = AssetId(i)]]
              [] k = "manual_assets" ->
                    [id \in {AssetId(i) : i \in withDetails} |->
                        cases[CHOOSE i \in withDetails : AssetId(i) = id].details]
              [] OTHER -> asset_types])

ReconcileDocs ==
    { ReconcileDoc(cases, types) :
        cases \in UNION {[1..n -> AssetCases] : n \in 0..MaxAssets},
        types \in AssetTypeLists }

ReconcileMainResponses == {ConnError} \cup {Http(200, "json", j) : j \in ReconcileDocs}

ReconcileConfigResponses == {Http(200, "json", JsonDict(EmptyDict))}

PostDocs ==
    {JsonDict([k \in {"transaction_id"} |-> "tx"]),
     JsonDict([k \in {"error"} |-> "rejected"])}

PostResponses ==
    {ConnError, Http(204, "text", JsonNonDict)}
    \cup {Http(200, "json", j) : j \in PostDocs}

\* the data of the poll before the service call: one asset that needs no change
\* at the lower price
EarlierData ==
    JsonDict(DictSet(
        ReconcileDoc(<<[asset |-> AssetRecord(FALSE, Absent, Num("int", 1000)),
                        details |-> GoodDetails]>>,
                     <<[id |-> StocksType, name |-> "Stocks"]>>).d,
        "config", EmptyDict))

InitReconcileSpec ==
    /\ supervisor_token \in Tokens
    /\ last_request = NoRequest
    /\ data = EarlierData
    /\ last_update_success \in BOOLEAN
    /\ last_poll = NoPoll
    /\ InitHass
    /\ InitReconcile
    /\ Loaded
    /\ InitSensors

\* the linked entity changes its state
StateChanged ==
    /\ \E e \in Entities, v \in EntityStates : states' = [states EXCEPT ![e] = v]
    /\ UNCHANGED <<requestVars, coordinatorVars, reconcileVars, setupVars, sensorVars>>

NextReconcile ==
    \/ ReconcileCall(ReconcileMainResponses, ReconcileConfigResponses)
    \/ DeferredRefresh(ReconcileMainResponses, ReconcileConfigResponses)
    \/ ReconcileInspect
    \/ ReconcileAsset(PostResponses)
    \/ ReconcileFinish
    \/ StateChanged

SpecReconcile == InitReconcileSpec /\ [][NextReconcile]_vars

----------------------------------------------------------------------------
(* Specification of the reconcile service over the reasons to skip an asset *)

Details(type_id, entity_id, shares) ==
    [present |-> TRUE, type_id |-> type_id, entity_id |-> entity_id, shares |-> shares]

GoodAsset == [asset |-> AssetRecord(FALSE, Num("num", 25000), Absent), details |-> GoodDetails]

\* an eligible asset, and one asset for each condition of the filter that
\* can fail
SkipCases ==
    { GoodAsset,
      [asset |-> [AssetRecord(FALSE, Absent, Num("int", 1000)) EXCEPT !.isdict = FALSE],
       details |-> GoodDetails],
      [asset |-> AssetRecord(TRUE, Absent, Num("int", 1000)), details |-> GoodDetails],
      [asset |-> AssetRecord(FALSE, Absent, Num("int", 1000)), details |-> NoDetails],
      [asset |-> AssetRecord(FALSE, Absent, Num("int", 1000)),
       details |-> Details(OtherType, StockEntity, Num("num", 13))],
      [asset |-> AssetRecord(FALSE, Absent, Num("int", 1000)),
       details |-> Details(StocksType, "", Num("num", 13))],
      [asset |-> AssetRecord(FALSE, Absent, Num("int", 1000)),
       details |-> Details(StocksType, StockEntity, Absent)],
      [asset |-> AssetRecord(FALSE, Absent, Num("int", 1000)),
       details |-> Details(StocksType, StockEntity, Num("num", 0))],
      [asset |-> AssetRecord(FALSE, Absent, Num("int", 1000)),
       details |-> Details(StocksType, StockEntity, Num("num", -13))],
      [asset |-> AssetRecord(FALSE, Absent, Num("int", 1000)),
       details |-> Details(StocksType, StockEntity, Text)],
      [asset |-> AssetRecord(FALSE, Absent, Num("float", 1000)), details |-> GoodDetails] }

StocksTypes == <<[id |-> OtherType, name |-> "Cash"], [id |-> StocksType, name |-> "Stocks"]>>

\* the document with one of the cases before an eligible asset, and the same
\* document with the first asset's id missing
SkipDocs ==
    { ReconcileDoc(<<c, GoodAsset>>, StocksTypes) : c \in SkipCases }
    \cup { JsonDict([ReconcileDoc(<<GoodAsset, GoodAsset>>, StocksTypes).d
                        EXCEPT !["assets"][1].id = ""]) }

SkipMainResponses == {ConnError} \cup {Http(200, "json", j) : j \in SkipDocs}

NextSkip ==
    \/ ReconcileCall(SkipMainResponses, ReconcileConfigResponses)
    \/ DeferredRefresh(SkipMainResponses, ReconcileConfigResponses)
    \/ ReconcileInspect
    \/ ReconcileAsset(PostResponses)
    \/ ReconcileFinish
    \/ StateChanged

SpecSkip == InitReconcileSpec /\ [][NextSkip]_vars

\* the conditions under which an asset of the inspected data may be reconciled
MayReconcile(asset) ==
    LET manual_assets == Get(inspected.data.d, "manual_assets", EmptyDict)
        asset_types == Get(inspected.data.d, "asset_types", <<>>)
    IN  /\ asset.isdict
        /\ ~asset.deleted
        /\ asset.id # ""
        /\ asset.id \in DOMAIN manual_assets
        /\ \E t \in DOMAIN asset_types :
              /\ asset_types[t].name = "Stocks"
              /\ manual_assets[asset.id].type_id = asset_types[t].id
        /\ manual_assets[asset.id].entity_id # ""
        /\ manual_assets[asset.id].shares.kind = "num"
        /\ manual_assets[asset.id].shares.n > 0
        /\ asset.value.kind = "absent" => asset.balance.kind \in {"int", "absent"}

\* the ids the handler has taken up or sent a request for
ReconciledIds ==
    {assets_to_reconcile[k].ynab_account_id : k \in DOMAIN assets_to_reconcile}
    \cup {reconciled[k].ynab_id : k \in DOMAIN reconciled}
    \cup {posts[k].account_id : k \in DOMAIN posts}

\* C16: every asset the handler takes up, and every asset a request is sent
\* for, is a dict not marked deleted with an id, whose manual_assets entry has
\* the type of the asset type named 'Stocks', a non-empty entity_id and shares
\* that are a number > 0, and whose ledger balance is an integer.
ReconcileOnlyEligible ==
    \A id \in ReconciledIds :
        \E i \in DOMAIN Get(inspected.data.d, "assets", <<>>) :
            /\ inspected.data.d["assets"][i].id = id
            /\ MayReconcile(inspected.data.d["assets"][i])

\* a request went out for the eligible asset of a document whose other asset
\* has a manual entry of another type
ReconciledBesideSkipped ==
    /\ reconcile_pc = "done"
    /\ Len(posts) = 1
    /\ Len(inspected.data.d["assets"]) = 2
    /\ Len(assets_to_reconcile) = 1
    /\ \E id \in DOMAIN inspected.data.d["manual_assets"] :
          inspected.data.d["manual_assets"][id].type_id = OtherType

----------------------------------------------------------------------------
(* Specification of set-up and unload *)

\* what /ping and the two polled endpoints answer while the entry is set up
SetupPingResponses ==
    {ConnError, Http(500, "text", JsonNonDict), Http(200, "json", JsonDict(EmptyDict))}

SetupMainResponses ==
    {ConnError, Http(200, "json", JsonDict([k \in {"accounts"} |-> <<"a1">>]))}

SetupConfigResponses ==
    {ConnError,
     Http(200, "json", JsonDict([k \in {"use_calculated_asset_value"} |-> TRUE]))}

InitSetupSpec ==
    /\ supervisor_token \in Tokens
    /\ last_request = NoRequest
    /\ InitCoordinator
    /\ states = [e \in Entities |-> Absent]
    /\ InitReconcile
    /\ InitSetup
    /\ InitSensors

NextSetup ==
    \/ SetupStart(SetupPingResponses)
    \/ SetupVerify(SetupPingResponses)
    \/ SetupFirstRefresh(SetupMainResponses, SetupConfigResponses)
    \/ SetupForward
    \/ UnloadEntry

SpecSetup == InitSetupSpec /\ [][NextSetup]_vars

\* C7: when connection verification fails, set-up raises ConfigEntryNotReady
\* and at that point no coordinator is stored in hass.data for the entry, the
\* sensor platform has not been forwarded and the service is not registered.
SetupFailsClean ==
    setup_raised = "verify_connection" =>
        /\ entry_state = "setup_retry"
        /\ ~hass_data
        /\ ~platforms_forwarded
        /\ ~service_registered

----------------------------------------------------------------------------
(* Specification of the summary sensors *)

MaxAccounts == 2
MaxCards == 1
MaxTx == 3

\* the days on which the sensors read the date
Days == {100, 101}

Account(account_type, closed, balance, allocation_liquid) ==
    [isdict |-> TRUE, account_type |-> account_type, closed |-> closed,
     balance |-> balance, allocation_liquid |-> allocation_liquid,
     date_next |-> Absent, amount |-> Absent]

CreditCard(closed, balance) == Account("", closed, balance, Absent)

ScheduledTransaction(date_next, amount) ==
    [isdict |-> TRUE, account_type |-> "", closed |-> FALSE,
     balance |-> Absent, allocation_liquid |-> Absent,
     date_next |-> date_next, amount |-> amount]

\* a list entry that is not a dict
NotADict == [Account("", FALSE, Absent, Absent) EXCEPT !.isdict = FALSE]

\* account_type missing is a.get("account_type", "")
AccountPool ==
    {Account("Checking", FALSE, Num("num", 1234), Num("num", 1000)),
     Account("savings", FALSE, Num("num", -5), Num("num", 4)),
     Account("CASH", TRUE, Num("num", 5000), Num("num", 2003)),
     Account("otherAsset", FALSE, Num("num", 700), Num("num", 700)),
     Account("", FALSE, Num("num", 300), Num("num", 300)),
     Account("Checking", FALSE, Absent, Absent),
     NotADict}

CreditCardPool ==
    {CreditCard(FALSE, Num("num", -1234)),
     CreditCard(FALSE, Num("num", -3005)),
     CreditCard(TRUE, Num("num", -9000)),
     CreditCard(FALSE, Absent),
     NotADict}

ScheduledPool ==
    {ScheduledTransaction(Num("num", 99), Num("num", 5000)),
     ScheduledTransaction(Num("num", 99), Num("num", -400)),
     ScheduledTransaction(Num("num", 100), Num("num", -1505)),
     ScheduledTransaction(Num("num", 103), Absent),
     ScheduledTransaction(Num("num", 106), Num("num", 1234)),
     ScheduledTransaction(Num("num", 106), Num("num", -300)),
     ScheduledTransaction(Num("num", 107), Num("num", -2000)),
     ScheduledTransaction(Num("num", 129), Num("num", -1236)),
     ScheduledTransaction(Num("num", 130), Num("num", 700)),
     ScheduledTransaction(Text, Num("num", -900)),
     ScheduledTransaction(Absent, Num("num", 250)),
     NotADict}

SeqsUpTo(S, n) == UNION {[1..m -> S] : m \in 0..n}

\* coordinator data as the sensors find it: the balances of accounts and
\* credit cards, or the scheduled transactions
SensorDocs ==
    {JsonDict([k \in {"accounts", "credit_cards"} |->
                  IF k = "accounts" THEN accounts ELSE credit_cards]) :
        accounts \in SeqsUpTo(AccountPool, MaxAccounts),
        credit_cards \in SeqsUpTo(CreditCardPool, MaxCards)}
    \cup {JsonDict([k \in {"scheduled_transactions"} |-> scheduled_transactions]) :
        scheduled_transactions \in SeqsUpTo(ScheduledPool, MaxTx)}
    \cup {NoData}

\* the entry is loaded and a refresh has stored its data; the sensors have
\* been created and not yet written
InitSensorsSpec ==
    /\ supervisor_token = ""
    /\ last_request = NoRequest
    /\ data \in SensorDocs
    /\ last_update_success = TRUE
    /\ last_poll = NoPoll
    /\ states = [e \in Entities |-> Absent]
    /\ InitReconcile
    /\ Loaded /\ ~use_supervisor_api
    /\ InitSensors

NextSensors == HandleCoordinatorUpdate(Days)

SpecSensors == InitSensorsSpec /\ [][NextSensors]_vars

----------------------------------------------------------------------------
(* Properties of the summary sensors *)

\* the sensors have written their states
Written == today.kind = "num"

Milliunits(x) == IF x.kind = "num" THEN x.n ELSE 0

\* the sum of f over the indices in S
RECURSIVE SumOver(_, _)
SumOver(S, f) ==
    IF S = {} THEN 0
    ELSE LET i == CHOOSE j \in S : TRUE
         IN  f[i] + SumOver(S \ {i}, f)

\* a value in cents that is nearest to a total in milliunits
NearestCent(cents, total) == Abs(10 * cents - total) <= 5

\* a value in cents that is the total in milliunits divided by 1000
ExactValue(cents, total) == 10 * cents = total

\* the two readings of "the sensor is the total"
Agrees(rounded, cents, total) ==
    IF rounded THEN NearestCent(cents, total) ELSE ExactValue(cents, total)

Accounts == HelperList(data, "accounts")
CreditCards == HelperList(data, "credit_cards")
Scheduled == HelperList(data, "scheduled_transactions")

Balances(list) == [i \in DOMAIN list |-> Milliunits(list[i].balance)]
Amounts == [i \in DOMAIN Scheduled |-> Milliunits(Scheduled[i].amount)]

\* the scheduled transactions with a date d, from <= d < to
Between(from, to) ==
    {i \in DOMAIN Scheduled :
        /\ Scheduled[i].isdict
        /\ Scheduled[i].date_next.kind = "num"
        /\ from <= Scheduled[i].date_next.n
        /\ Scheduled[i].date_next.n < to}

ScheduledKey(N, part) ==
    CASE N = 7 /\ part = "inflow" -> "scheduled_next_7_days_inflow"
      [] N = 7 /\ part = "outflow" -> "scheduled_next_7_days_outflow"
      [] N = 7 /\ part = "net" -> "scheduled_next_7_days_net"
      [] N = 30 /\ part = "inflow" -> "scheduled_next_30_days_inflow"
      [] N = 30 /\ part = "outflow" -> "scheduled_next_30_days_outflow"
      [] N = 30 /\ part = "net" -> "scheduled_next_30_days_net"

\* the three scheduled_next_N_days sensors against the window's sums
ScheduledWindows(N, rounded) ==
    LET window == Between(today.n, today.n + N)
    IN  /\ Agrees(rounded, sensor_state[ScheduledKey(N, "inflow")].cents,
                  SumOver({i \in window : Amounts[i] > 0}, Amounts))
        /\ Agrees(rounded, sensor_state[ScheduledKey(N, "outflow")].cents,
                  Abs(SumOver({i \in window : Amounts[i] < 0}, Amounts)))
        /\ Agrees(rounded, sensor_state[ScheduledKey(N, "net")].cents,
                  SumOver(window, Amounts))

\* C5 as stated: for N in {7, 30} the scheduled_next_N_days sensors are the
\* sums, divided by 1000, over the scheduled transactions with
\* today <= date_next < today + N: inflow the positive amounts, outflow the
\* absolute value of the negative ones, net all of them.
ScheduledWindowsExact ==
    Written => \A N \in {7, 30} : ScheduledWindows(N, FALSE)

\* C5: for N in {7, 30} the scheduled_next_N_days sensors are those sums,
\* divided by 1000 and rounded to two decimals (a nearest cent).
ScheduledWindowsRounded ==
    Written => \A N \in {7, 30} : ScheduledWindows(N, TRUE)

\* an inflow inside the 7-day window and an outflow dated today + 7, which
\* only the 30-day window holds
ScheduledWindowEdge ==
    /\ Written
    /\ \E i \in DOMAIN Scheduled :
          /\ Scheduled[i].isdict
          /\ Scheduled[i].date_next = Num("num", today.n + 7)
          /\ Amounts[i] < 0
    /\ sensor_state["scheduled_next_7_days_inflow"].cents > 0
    /\ sensor_state["scheduled_next_7_days_outflow"].cents = 0
    /\ sensor_state["scheduled_next_30_days_outflow"].cents > 0

OpenCashAccounts ==
    {i \in DOMAIN Accounts :
        /\ Accounts[i].isdict
        /\ ~Accounts[i].closed
        /\ \/ Accounts[i].account_type \in {"checking", "savings", "cash"}
           \/ Accounts[i].account_type \in {"Checking", "CASH"}}

OpenCreditCards ==
    {i \in DOMAIN CreditCards : CreditCards[i].isdict /\ ~CreditCards[i].closed}

BalanceSensors(rounded) ==
    /\ Agrees(rounded, sensor_state["ynab_cash_balance"].cents,
              SumOver(OpenCashAccounts, Balances(Accounts)))
    /\ Agrees(rounded, sensor_state["ynab_credit_balance"].cents,
              SumOver(OpenCreditCards, Balances(CreditCards)))

\* C6 as stated: ynab_cash_balance is the sum of balance/1000 over the open
\* accounts of type checking, savings or cash (any case), and
\* ynab_credit_balance the sum of balance/1000 over the open credit cards.
BalanceSensorsExact == Written => BalanceSensors(FALSE)

\* C6: the two sensors are those sums rounded to two decimals (a nearest
\* cent); other types and closed entries add nothing, a missing balance 0.
BalanceSensorsRounded == Written => BalanceSensors(TRUE)

\* a closed cash account next to an open one written "Checking", and an
\* open credit card with a balance
BalancesSummed ==
    /\ Written
    /\ \E i, j \in DOMAIN Accounts :
          /\ Accounts[i].isdict /\ Accounts[i].closed
          /\ Accounts[i].account_type = "CASH"
          /\ Accounts[j].isdict /\ ~Accounts[j].closed
          /\ Accounts[j].account_type = "Checking"
          /\ Accounts[j].balance.kind = "num"
    /\ sensor_state["ynab_cash_balance"].cents # 0
    /\ sensor_state["ynab_credit_balance"].cents < 0

\* the scheduled inflows dated today or later
UpcomingInflows ==
    {i \in DOMAIN Scheduled :
        /\ Scheduled[i].isdict
        /\ Scheduled[i].date_next.kind = "num"
        /\ Scheduled[i].date_next.n >= today.n
        /\ Amounts[i] > 0}

\* D: the earliest of their dates
EarliestInflow ==
    CHOOSE D \in {Scheduled[i].date_next.n : i \in UpcomingInflows} :
        \A i \in UpcomingInflows : D <= Scheduled[i].date_next.n

OutflowUntilNextInflow(rounded) ==
    IF UpcomingInflows = {}
    THEN sensor_state["total_outflow_until_next_inflow"].cents = 0
    ELSE Agrees(rounded, sensor_state["total_outflow_until_next_inflow"].cents,
                Abs(SumOver({i \in Between(today.n, EarliestInflow) : Amounts[i] < 0},
                            Amounts)))

\* C9 as stated: total_outflow_until_next_inflow is the absolute value of
\* the sum of the negative amounts, divided by 1000, dated in
\* today <= d < D, with D the earliest date >= today of a positive amount;
\* 0.0 without such an inflow.
OutflowUntilNextInflowExact == Written => OutflowUntilNextInflow(FALSE)

\* C9: the sensor is that sum rounded to two decimals (a nearest cent), and
\* 0.0 without an upcoming inflow; outflows dated D are not counted.
OutflowUntilNextInflowRounded == Written => OutflowUntilNextInflow(TRUE)

\* an outflow before the next inflow is counted, one on its day is not
OutflowOnInflowDaySkipped ==
    /\ Written
    /\ UpcomingInflows # {}
    /\ \E i, j \in DOMAIN Scheduled :
          /\ Scheduled[i].isdict /\ Amounts[i] < 0
          /\ Scheduled[i].date_next = Num("num", EarliestInflow)
          /\ Scheduled[j].isdict /\ Amounts[j] < 0
          /\ Scheduled[j].date_next.kind = "num"
          /\ today.n <= Scheduled[j].date_next.n
          /\ Scheduled[j].date_next.n < EarliestInflow
          /\ NearestCent(sensor_state["total_outflow_until_next_inflow"].cents,
                         -Amounts[j])

\* C10: can_pay_off_cards_in_full is True exactly when the value of
\* ynab_cash_liquid plus the value of ynab_credit_balance is >= 0, and the
\* sensor's _sensor_key is still its own after the computation.
CanPayOffCards ==
    Written =>
        /\ sensor_state["can_pay_off_cards_in_full"] =
              Flag(sensor_state["ynab_cash_liquid"].cents
                   + sensor_state["ynab_credit_balance"].cents >= 0)
        /\ sensor_key["can_pay_off_cards_in_full"] = "can_pay_off_cards_in_full"

\* liquid cash covers a card debt
CardsCovered ==
    /\ Written
    /\ sensor_state["ynab_credit_balance"].cents < 0
    /\ sensor_state["ynab_cash_liquid"].cents > 0
    /\ sensor_state["can_pay_off_cards_in_full"].flag

----------------------------------------------------------------------------
(* Specification of the account sensor *)

AccountRecord(id, emoji, bank, balance) ==
    [isdict |-> TRUE, id |-> id, name |-> [emoji |-> emoji, text |-> "Main"],
     bank |-> bank, include_bank_in_name |-> TRUE, balance |-> balance]

\* an entry of 'accounts' that is not a dict
AccountNotADict == [AccountRecord("", "", "", Absent) EXCEPT !.isdict = FALSE]

OtherAccount == AccountRecord("a2", "", "", Num("num", 70000))

\* the documents the add-on answers with, by their 'accounts' lists
AccountDocs ==
    {JsonDict([k \in {"accounts"} |-> accounts]) : accounts \in
        {<<>>,
         <<AccountRecord(AccountId, "", "", Num("num", 1000))>>,
         <<AccountRecord(AccountId, "", "", Num("num", 2500))>>,
         <<AccountRecord(AccountId, "$", "Chase", Num("num", 1000))>>,
         <<AccountRecord(AccountId, "", "", Absent)>>,
         <<OtherAccount>>,
         <<OtherAccount, AccountRecord(AccountId, "", "", Num("num", 1000))>>,
         <<AccountNotADict, AccountRecord(AccountId, "", "", Num("num", 2500))>>,
         <<AccountRecord(AccountId, "$", "Chase", Num("num", 2500)), AccountNotADict>>}}
    \cup {JsonDict([k \in {"assets"} |-> <<>>])}

AccountConfigResponses ==
    {ConnError,
     Http(200, "json", JsonDict(EmptyDict)),
     Http(200, "json", JsonDict([k \in {"include_ynab_emoji"} |-> FALSE]))}

\* the first refresh has stored a poll that lists the account, and the
\* platform has created the sensor from it
InitAccountSpec ==
    /\ supervisor_token = ""
    /\ last_request = NoRequest
    /\ data \in {JsonDict(DictSet(j.d, "config", EmptyDict)) : j \in
                    {j \in AccountDocs :
                        FindDataById(Get(j.d, "accounts", <<>>), AccountId) # <<>>}}
    /\ last_update_success = TRUE
    /\ last_poll = NoPoll
    /\ states = [e \in Entities |-> Absent]
    /\ InitReconcile
    /\ Loaded /\ ~use_supervisor_api
    /\ today = Absent
    /\ sensor_key = [k \in SummarySensors |-> k]
    /\ sensor_state = [k \in SummarySensors |-> DefaultState(k)]
    /\ account_sensor = AccountUpdateInternalState(NewAccountSensor, data)
    /\ asset_sensor = NewAssetSensor

\* a poll, and the coordinator's call of the sensor's listener after it
AccountPoll ==
    /\ Refresh({ConnError} \cup {Http(200, "json", j) : j \in AccountDocs},
               AccountConfigResponses)
    /\ account_sensor' = AccountHandleCoordinatorUpdate(account_sensor, data')
    /\ UNCHANGED <<requestVars, states, reconcileVars, setupVars, today, sensor_key,
                   sensor_state, asset_sensor>>

NextAccount == AccountPoll

SpecAccount == InitAccountSpec /\ [][NextAccount]_vars

\* the account is in the 'accounts' list of a poll's data
AccountListed(d) ==
    /\ d.isdict
    /\ \E i \in DOMAIN Get(d.d, "accounts", <<>>) :
          /\ d.d["accounts"][i].isdict
          /\ d.d["accounts"][i].id = AccountId

\* C11: a successful poll whose 'accounts' list does not hold the account
\* leaves the sensor's value, name and attributes as they were, and its
\* available property is True after it.
AccountSensorKept ==
    [][(last_poll'.prev = data /\ last_poll'.result.kind = "return"
            /\ ~AccountListed(data'))
        => /\ account_sensor'.native_value = account_sensor.native_value
           /\ account_sensor'.name = account_sensor.name
           /\ account_sensor'.attributes = account_sensor.attributes
           /\ AccountAvailable']_vars

\* the last poll succeeded without the account and the sensor still shows
\* the balance, name and attributes of an earlier poll
AccountShownAfterAbsence ==
    /\ last_poll.result.kind = "return"
    /\ last_update_success
    /\ ~AccountListed(data)
    /\ account_sensor.native_value = Num("num", 2500)
    /\ account_sensor.name = <<"Chase", "$", "Main">>
    /\ account_sensor.attributes # <<>>

----------------------------------------------------------------------------
(* Specification of the asset sensor *)

SensorAssetRecord(id, value, entity_id, shares) ==
    [isdict |-> TRUE, id |-> id, value |-> value, entity_id |-> entity_id,
     shares |-> shares]

OtherAsset == SensorAssetRecord("asset-2", Num("num", 70000), "", Absent)

\* the records of the asset the add-on answers with: with and without a
\* numeric value, a linked entity, and shares that are positive, zero,
\* negative, unparsable or missing
AssetRecords ==
    {SensorAssetRecord(AssetSensorId, Num("num", 25000), StockEntity, Num("num", 13)),
     SensorAssetRecord(AssetSensorId, Num("num", 25000), StockEntity, Num("num", 50)),
     SensorAssetRecord(AssetSensorId, Num("num", 25000), "", Num("num", 13)),
     SensorAssetRecord(AssetSensorId, Num("num", 25000), StockEntity, Text),
     SensorAssetRecord(AssetSensorId, Num("num", 25000), StockEntity, Num("num", -13)),
     SensorAssetRecord(AssetSensorId, Absent, StockEntity, Num("num", 13)),
     SensorAssetRecord(AssetSensorId, Text, StockEntity, Num("num", 0)),
     SensorAssetRecord(AssetSensorId, Absent, StockEntity, Absent)}

AssetDocs ==
    {JsonDict([k \in {"assets"} |-> assets]) : assets \in
        {<<>>, <<OtherAsset>>} \cup {<<r>> : r \in AssetRecords}
        \cup {<<OtherAsset, r>> : r \in {SensorAssetRecord(AssetSensorId, Absent, StockEntity,
                                                     Num("num", 13))}}}

AssetConfigResponses ==
    {ConnError,
     Http(200, "json", JsonDict(EmptyDict)),
     Http(200, "json", JsonDict([k \in {"use_calculated_asset_value"} |-> TRUE])),
     Http(200, "json", JsonDict([k \in {"use_calculated_asset_value"} |-> FALSE]))}

\* the first refresh has stored a poll that lists the asset, and the platform
\* has created the sensor from it
InitAssetSpec ==
    /\ supervisor_token = ""
    /\ last_request = NoRequest
    /\ data \in {JsonDict(DictSet(j.d, "config", EmptyDict)) : j \in
                    {j \in AssetDocs :
                        FindDataById(Get(j.d, "assets", <<>>), AssetSensorId) # <<>>}}
    /\ last_update_success = TRUE
    /\ last_poll = NoPoll
    /\ states \in [Entities -> {Absent, Num("num", 769)}]
    /\ InitReconcile
    /\ Loaded /\ ~use_supervisor_api
    /\ today = Absent
    /\ sensor_key = [k \in SummarySensors |-> k]
    /\ sensor_state = [k \in SummarySensors |-> DefaultState(k)]
    /\ account_sensor = NewAccountSensor
    /\ \E ties_up \in BOOLEAN :
          asset_sensor = AssetUpdateInternalState(NewAssetSensor, data, states, ties_up)

\* a poll, and the coordinator's call of the sensor's listener after it
AssetPoll ==
    /\ Refresh({ConnError} \cup {Http(200, "json", j) : j \in AssetDocs},
               AssetConfigResponses)
    /\ \E ties_up \in BOOLEAN :
          asset_sensor' = AssetHandleCoordinatorUpdate(asset_sensor, data', states, ties_up)
    /\ UNCHANGED <<requestVars, states, reconcileVars, setupVars, today, sensor_key,
                   sensor_state, account_sensor>>

\* the linked entity gets another state (Absent: hass does not know the
\* entity); the sensor does not listen to it
AssetEntityChanged ==
    /\ \E e \in Entities,
          st \in {Absent, Text, Unavailable, NaNState, Num("num", 769)} :
          /\ states[e] # st
          /\ states' = [states EXCEPT ![e] = st]
    /\ UNCHANGED <<requestVars, coordinatorVars, reconcileVars, setupVars, sensorVars>>

NextAsset == AssetPoll \/ AssetEntityChanged

SpecAsset == InitAssetSpec /\ [][NextAsset]_vars

\* the record of the asset in a poll's data: the first dict of 'assets' with
\* the sensor's id
IsAssetRecordAt(d, i) ==
    /\ d.isdict
    /\ "assets" \in DOMAIN d.d
    /\ i \in DOMAIN d.d["assets"]
    /\ d.d["assets"][i].isdict /\ d.d["assets"][i].id = AssetSensorId
    /\ \A j \in 1..(i - 1) :
          ~(d.d["assets"][j].isdict /\ d.d["assets"][j].id = AssetSensorId)

UseCalculated(d) ==
    /\ "config" \in DOMAIN d.d
    /\ "use_calculated_asset_value" \in DOMAIN d.d["config"]
    /\ d.d["config"]["use_calculated_asset_value"]

\* the calculated value of a record can be computed from the entity states
Computable(record, hass_states) ==
    /\ record.entity_id # ""
    /\ record.shares.kind = "num" /\ record.shares.n > 0
    /\ hass_states[record.entity_id].kind \in {"num", "nan"}

\* v is price * shares rounded to cents (not-a-number for a price that is)
IsCalculated(v, record, hass_states) ==
    LET price == hass_states[record.entity_id]
    IN  IF price.kind = "nan" THEN v = NaNState
        ELSE /\ v.kind = "num"
             /\ v.n % 100 = 0
             /\ Abs(v.n - price.n * record.shares.n) <= 50

\* C17: when the asset sensor has processed a record (the update replaced its
\* cached record), its value is the calculated value if the config has
\* use_calculated_asset_value true and that value is computable, otherwise
\* the record's numeric 'value' as it is, otherwise 0.0.
AssetValueRule ==
    [][\A i \in 1..3 :
          (/\ asset_sensor'.last_asset_data # asset_sensor.last_asset_data
           /\ IsAssetRecordAt(data', i))
          => LET record == data'.d["assets"][i]
             IN  IF UseCalculated(data') /\ Computable(record, states')
                 THEN IsCalculated(asset_sensor'.native_value, record, states')
                 ELSE IF record.value.kind = "num"
                 THEN asset_sensor'.native_value = record.value
                 ELSE asset_sensor'.native_value = Num("num", 0)]_vars

\* the sensor has processed a record of a poll with use_calculated_asset_value
\* true and shows 0.769 * 1.3 rounded to cents, not the record's value 2.5
AssetShowsCalculated ==
    /\ asset_sensor.last_asset_data # <<>>
    /\ asset_sensor.last_asset_data = CombinedCurrentData(data)
    /\ UseCalculated(data)
    /\ \E i \in 1..3 :
          /\ IsAssetRecordAt(data, i)
          /\ data.d["assets"][i].value = Num("num", 25000)
          /\ data.d["assets"][i].shares = Num("num", 13)
    /\ states[StockEntity] = Num("num", 769)
    /\ asset_sensor.native_value = Num("num", 10000)

\* C13: the coordinator's request that follows the initial ping tries the
\* Supervisor route first only if that ping succeeded, and the direct route
\* first if the ping failed or there is no token.
PingDecidesRouting ==
    (last_request.client = Coordinator /\ entry_state # "pinged") =>
        (last_request.attempts[1].route = Supervisor <=> use_supervisor_api)

----------------------------------------------------------------------------
(* Properties of the HTTP client *)

\* the attempt produced a parsed 2xx response
ParsedOk(resp) == Is2xx(resp) /\ (resp.status = 204 \/ resp.body = "json")

Called == last_request.client # "none"

\* C1: with a token the attempts are Supervisor, then Direct only after the
\* Supervisor attempt gave no parsed 2xx response; without a token there is
\* exactly one attempt, to Direct; no route is tried twice and there are
\* never more than two attempts.
RequestRouteOrder ==
    Called =>
        LET a == last_request.attempts
        IN  /\ Len(a) \in {1, 2}
            /\ \A i, j \in 1..Len(a) : i # j => a[i].route # a[j].route
            /\ IF supervisor_token # ""
               THEN /\ a[1].route = Supervisor
                    /\ Len(a) = 2 => a[2].route = Direct /\ ~ParsedOk(a[1].resp)
               ELSE Len(a) = 1 /\ a[1].route = Direct

RequestFellBack ==
    /\ Called /\ supervisor_token # ""
    /\ Len(last_request.attempts) = 2
    /\ last_request.attempts[2].route = Direct

\* C12: no attempt on the direct route carries an Authorization header (the
\* callers pass none), whether Direct is the fallback or the primary.
DirectWithoutBearer ==
    Called =>
        \A i \in DOMAIN last_request.attempts :
            last_request.attempts[i].route = Direct =>
                "Authorization" \notin DOMAIN last_request.attempts[i].headers

\* a call with a token fell back to Direct with the caller's own headers
DirectFallbackSent ==
    /\ Called /\ supervisor_token # ""
    /\ Len(last_request.attempts) = 2
    /\ last_request.attempts[1].headers = Bearer(supervisor_token)
    /\ last_request.attempts[2].route = Direct
    /\ "Content-Type" \in DOMAIN last_request.attempts[2].headers

\* C2: a call of the coordinator's _request ends either by returning the
\* body of the 2xx response of its last attempt ({} for 204) or by raising
\* UpdateFailed, and it raises exactly when its last attempt failed.
RequestReturnsOrUpdateFailed ==
    last_request.client = Coordinator =>
        LET a == last_request.attempts
            final == a[Len(a)].resp
            r == last_request.result
        IN  IF ParsedOk(final)
            THEN /\ r.kind = "return"
                 /\ r.value = IF final.status = 204 THEN JsonDict(EmptyDict) ELSE final.json
            ELSE /\ r.kind = "raise" /\ r.exc = "UpdateFailed"
                 /\ Len(a) = 2 \/ supervisor_token = ""

RequestGaveUpAfterFallback ==
    /\ last_request.client = Coordinator
    /\ Len(last_request.attempts) = 2
    /\ last_request.attempts[2].resp = Http(200, "nonjson", JsonNonDict)
    /\ last_request.result.kind = "raise"

----------------------------------------------------------------------------
(* Properties of the reconcile service *)

Inspected == reconcile_pc \in {"loop", "done"}

\* the asset of the inspected data that a processed entry came from
SourceAsset(id) ==
    LET assets == inspected.data.d["assets"]
    IN  assets[CHOOSE i \in 1..Len(assets) : assets[i].id = id]

\* C4: for each processed asset whose entity state is numeric, the adjustment
\* is round(price * shares * 1000) minus the ledger balance in milliunits
\* ('value' times 1000 when present, otherwise 'balance'); a request with the
\* asset's id and that amount is sent exactly when the adjustment is not
\* zero, and a zero adjustment is a success without a request.  Amounts are
\* compared in tenths of a milliunit, the unit of 'value'.
ReconcileAdjustment ==
    \A k \in 1..Len(reconciled) :
        reconciled[k].state.kind = "num" =>
            LET e == reconciled[k]
                src == SourceAsset(e.ynab_id)
                shares == inspected.data.d["manual_assets"][e.ynab_id].shares.n
                ledger == IF src.value.kind # "absent"
                          THEN src.value.n
                          ELSE src.balance.n * ValueScale
                adjustment == ValueScale * PyRound(e.state.n * shares, 10) - ledger
                sent == {j \in 1..Len(posts) : posts[j].account_id = e.ynab_id}
            IN  /\ e.posted <=> adjustment # 0
                /\ e.posted <=> sent # {}
                /\ \A j \in sent :
                      /\ posts[j].endpoint = "create_adjustment_transaction"
                      /\ posts[j].amount * ValueScale = adjustment
                /\ ~e.posted => e.ok

NoStocksType(d) ==
    LET asset_types == Get(d.d, "asset_types", <<>>)
    IN  \A i \in 1..Len(asset_types) : asset_types[i].name # "Stocks"

\* C14: when the handler goes on after its wait, the coordinator data it has
\* read is the result of a refresh made since the service was called.
ReconcileReadsRefreshed ==
    (reconcile_pc \in {"loop", "done"} /\ ~InspectFails(inspected.success, inspected.data))
        => /\ last_poll.result.kind = "return"
           /\ inspected.data = last_poll.result.value

\* C15: once the handler has left the loop, every eligible asset has been
\* processed and counted exactly once, as a success or as a failure, and at
\* most one create_adjustment_transaction request was sent per asset.
ReconcileCountsEveryAsset ==
    (reconcile_pc \in {"done", "raised"}
        /\ ~InspectFails(inspected.success, inspected.data))
    => /\ successful_updates + failed_updates = Len(assets_to_reconcile)
       /\ Len(reconciled) = Len(assets_to_reconcile)
       /\ \A k \in 1..Len(reconciled) :
              reconciled[k].ynab_id = assets_to_reconcile[k].ynab_account_id
       /\ \A i, j \in 1..Len(posts) :
              posts[i].account_id = posts[j].account_id => i = j

\* C8: if the coordinator's last update failed or it holds no data, or the
\* data has no asset type named 'Stocks', the handler creates the notification
\* fa_reconcile_error and ends without any create_adjustment_transaction request.
ReconcileGivesUp ==
    Inspected /\ (\/ ~inspected.success
                  \/ ~Truthy(inspected.data)
                  \/ NoStocksType(inspected.data))
        => /\ reconcile_pc = "done"
           /\ notifications = <<"fa_reconcile_error">>
           /\ posts = <<>>

ReconcileGaveUpWithoutStocks ==
    /\ Inspected
    /\ inspected.success
    /\ Truthy(inspected.data)
    /\ NoStocksType(inspected.data)
    /\ Len(Get(inspected.data.d, "assets", <<>>)) > 0
    /\ notifications = <<"fa_reconcile_error">>

----------------------------------------------------------------------------
(* Properties of the poll *)

Polled == last_poll.result.exc # "none" \/ last_poll.result.kind = "return"

====
